---- MODULE Spec2Model ----
(***************************************************************************)
(* A run-all execution of the two tutorial notebooks of pykale:            *)
(*   examples/bindingdb_deepdta/tutorial.ipynb   (src/unnamed/part_000)    *)
(*   examples/digits_dann_lightn/tutorial.ipynb                            *)
(* Every code cell is one action, taken in the order of the notebook; a    *)
(* cell that raises stops the run.  The library calls the cells make       *)
(* (yacs, torch, pytorch_lightning, kale) are modelled by what they are    *)
(* documented to do.                                                       *)
(***************************************************************************)
EXTENDS Integers, Sequences, FiniteSets, TLC

VARIABLES
    nb,                   \* the notebook that is run: "deepdta" or "dann"
    pc,                   \* index in Cells(nb) of the next code cell
    phase,                \* "idle", or "fitting" while trainer.fit runs
    failedAt,             \* the cell that raised, or "none"
    log,                  \* history: <<"start" | "end" | "raise", cell>>
    colab, cuda,          \* environment: running on Colab, CUDA available
    installed, cloned, cwd, printed,
    yamlExists, yaml,     \* ./configs/tutorial.yaml: is it there, what it holds
    cfg, merged,          \* the CfgNode, and a snapshot taken after the merge
    rng, seeded, unseededDraws,   \* generator state of each execution of a pair
    entropy,              \* history: did the generators start from different states
    seed, device, gpus,
    train_size, valid_size, test_size,
    train_sample_indices, valid_sample_indices, test_sample_indices,
    train_dataset, valid_dataset, test_dataset,
    train_loader, valid_loader, test_loader,
    digits, dataset,      \* DANN: the digit images, the MultiDomainDatasets
    model, tb_logger, callbacks, trainer,
    fit_args, test_args,  \* the data handed to trainer.fit / trainer.test
    reports               \* the metrics trainer.test reported, in order

envVars  == <<colab, cuda, installed, cloned, cwd, printed>>
cfgVars  == <<yamlExists, yaml, cfg, merged>>
rngVars  == <<rng, seeded, unseededDraws, entropy>>
dtaVars  == <<train_size, valid_size, test_size,
              train_sample_indices, valid_sample_indices, test_sample_indices,
              train_dataset, valid_dataset, test_dataset,
              train_loader, valid_loader, test_loader>>
dannVars == <<digits, dataset>>
runVars  == <<model, tb_logger, callbacks, trainer, fit_args, test_args, reports>>
vars == <<nb, pc, phase, failedAt, log, envVars, cfgVars, rngVars, seed, device,
          gpus, dtaVars, dannVars, runVars>>

----------------------------------------------------------------------------
(* Bounds of the model *)

\* generator states are 0 .. RngMod-1
RngMod == 4
\* epoch counts a configuration may ask for are 0 .. EpochBound
EpochBound == 3
\* the splits of the dataset on disk differ from the subset sizes by at most this
SizeSlack == 1
\* images in each part (train, test) of each digit dataset
DigitsPerPart == 3

\* Two executions of the same notebook on the same inputs are run side by
\* side; they differ only in the entropy their generators start from.
Runs == {1, 2}

----------------------------------------------------------------------------
(* The notebooks: their code cells, in file order *)

\* the DeepDTA notebook with its last two cells swapped
DeepDTACellsFitAfterTest ==
    <<"colab", "imports", "config", "gpu", "datasets", "showpath", "loaders",
      "model", "logger", "trainer", "test", "fit">>

\* the code cells of examples/bindingdb_deepdta/tutorial.ipynb
DeepDTACells ==
    <<"colab", "imports", "config", "gpu", "datasets", "showpath", "loaders",
      "model", "logger", "trainer", "fit", "test">>

\* the DANN notebook without its last cell
DannCellsNoTest ==
    <<"colab", "imports", "config", "gpu", "datasets", "seed", "model",
      "logger", "checkpoint", "progress", "trainer", "fit">>

\* the code cells of examples/digits_dann_lightn/tutorial.ipynb
DannCells ==
    <<"colab", "imports", "config", "gpu", "datasets", "seed", "model",
      "logger", "checkpoint", "progress", "trainer", "fit", "test">>

Cells(n) == IF n = "deepdta" THEN DeepDTACells ELSE DannCells

Notebooks == {"deepdta", "dann"}

\* the cell run-all executes next
Current == IF pc <= Len(Cells(nb)) THEN Cells(nb)[pc] ELSE "end"

Running == failedAt = "none" /\ phase = "idle" /\ pc <= Len(Cells(nb))

\* a cell ran from its first line to its last
Ran(c) == log \o <<<<"start", c>>, <<"end", c>>>>

\* a cell raised
Raised(c) == log \o <<<<"start", c>>, <<"raise", c>>>>

----------------------------------------------------------------------------
(* The configuration: config.py, configs/tutorial.yaml, yacs.CfgNode *)

\* config.py: the defaults of each example
get_cfg_defaults(n) ==
    IF n = "deepdta"
    THEN [frozen |-> FALSE,
          node |-> [DATASET |-> [PATH |-> "./data", NAME |-> "DAVIS"],
                    SOLVER  |-> [SEED |-> 2020, TRAIN_BATCH_SIZE |-> 256,
                                 TEST_BATCH_SIZE |-> 256, MIN_EPOCHS |-> 1,
                                 MAX_EPOCHS |-> 2]]]
    ELSE [frozen |-> FALSE,
          node |-> [DATASET |-> [ROOT |-> "../data", SOURCE |-> "mnist",
                                 TARGET |-> "usps", WEIGHT_TYPE |-> "natural",
                                 SIZE_TYPE |-> "source",
                                 VALID_SPLIT_RATIO |-> 50],
                    SOLVER  |-> [SEED |-> 2020, MIN_EPOCHS |-> 1,
                                 MAX_EPOCHS |-> 2],
                    OUTPUT  |-> [TB_DIR |-> "tb_logs", PB_FRESH |-> 50]]]

\* configs/tutorial.yaml as the tutorials ship it: three epochs, the Kd dataset
TutorialYaml(n) ==
    IF n = "deepdta"
    THEN [DATASET |-> [NAME |-> "BindingDB_Kd"], SOLVER |-> [MAX_EPOCHS |-> 3]]
    ELSE [DATASET |-> [SOURCE |-> "mnist", TARGET |-> "usps"],
          SOLVER  |-> [MIN_EPOCHS |-> 0, MAX_EPOCHS |-> 3]]

\* What ./configs/tutorial.yaml may hold: the tutorial's own file, or a file a
\* user wrote, among them one that asks for more MIN_EPOCHS than MAX_EPOCHS.
YamlFiles(n) ==
    IF n = "deepdta"
    THEN { TutorialYaml(n),
           [SOLVER  |-> [SEED |-> 2021, MIN_EPOCHS |-> 0,
                         MAX_EPOCHS |-> EpochBound]],
           [SOLVER  |-> [MIN_EPOCHS |-> EpochBound, MAX_EPOCHS |-> 1,
                         TEST_BATCH_SIZE |-> 128]] }
    ELSE { TutorialYaml(n),
           [SOLVER  |-> [SEED |-> 2021, MAX_EPOCHS |-> EpochBound],
            OUTPUT  |-> [TB_DIR |-> "outputs"]],
           [SOLVER  |-> [MIN_EPOCHS |-> EpochBound, MAX_EPOCHS |-> 1]] }

\* the file specifies key k of section s
Specifies(y, s, k) == s \in DOMAIN y /\ k \in DOMAIN y[s]

\* CfgNode.merge_from_file: every key the file specifies replaces the default,
\* section by section; the other keys keep their defaults
MergeFromFile(c, y) ==
    [c EXCEPT !.node =
        [s \in DOMAIN c.node |->
            [k \in DOMAIN c.node[s] |->
                IF Specifies(y, s, k) THEN y[s][k] ELSE c.node[s][k]]]]

\* CfgNode.freeze
Freeze(c) == [c EXCEPT !.frozen = TRUE]

\* CfgNode.__setattr__: a frozen node rejects the assignment
SetAttrRejected(c) == c.frozen

SetAttr(c, s, k, v) ==
    IF c.frozen THEN c ELSE [c EXCEPT !.node[s][k] = v]

\* cfg = get_cfg_defaults(); cfg.merge_from_file(cfg_path)  -- without the freeze
LoadConfigNoFreeze(n, y) == MergeFromFile(get_cfg_defaults(n), y)

\* cfg = get_cfg_defaults(); cfg.freeze()  -- without the merge
LoadConfigNoMerge(n, y) == Freeze(get_cfg_defaults(n))

\* cfg = get_cfg_defaults(); cfg.merge_from_file(cfg_path); cfg.freeze()
LoadConfig(n, y) == Freeze(MergeFromFile(get_cfg_defaults(n), y))

\* no CfgNode is bound to the name cfg yet
NoCfg == [frozen |-> FALSE, node |-> [s \in {} |-> 0]]

----------------------------------------------------------------------------
(* Pseudo-random numbers: torch's default generator, kale.utils.seed *)

RngStates == 0 .. (RngMod - 1)

\* set_seed(seed): the state the generator is put in
SeedState(s) == s % RngMod

\* the state after one draw
NextRng(g) == (g + 1) % RngMod

\* torch.randperm(n) drawn in generator state g: a permutation of 0..n-1
RandPerm(n, g) ==
    [i \in 1..n |-> IF g % 2 = 0 THEN (i - 1 + g) % n ELSE (n - i + g) % n]

\* x[:k]
Take(x, k) == SubSeq(x, 1, IF k < Len(x) THEN k ELSE Len(x))

\* set_seed(seed) puts the generator of every execution in the seed's state
set_seed(s) == [r \in Runs |-> SeedState(s)]

\* the call set_seed(...) left out: the generator stays as it is
SeedNotSet(s, g) == g

\* set_seed(cfg.SOLVER.SEED) / set_seed(seed): the generator g after the call
SeedSet(s, g) == set_seed(s)

----------------------------------------------------------------------------
(* The state before the first cell *)

\* the directory of the example, as path components
ExampleDir(n) ==
    IF n = "deepdta" THEN <<"pykale", "examples", "bindingdb_deepdta">>
                     ELSE <<"pykale", "examples", "digits_dann_lightn">>

\* config.py, model.py and ./configs are found from the example's directory
InExampleDir ==
    /\ Len(cwd) >= 3
    /\ SubSeq(cwd, Len(cwd) - 2, Len(cwd)) = ExampleDir(nb)

NoDataset == [name |-> "", split |-> "", path |-> "", size |-> 0, indices |-> ""]
NoLoader  == [dataset |-> NoDataset, shuffle |-> FALSE, batch_size |-> 0]
NoTrainer == [built |-> FALSE, min_epochs |-> 0, max_epochs |-> 0, gpus |-> "unset",
              logger |-> [save_dir |-> "", name |-> <<>>], callbacks |-> {},
              current_epoch |-> 0,
              should_stop |-> FALSE, fitted |-> FALSE]
NoIndices == [r \in Runs |-> <<>>]
NoLogger  == [save_dir |-> "", name |-> <<>>]
NoArgs    == [called |-> FALSE, train |-> NoLoader, valid |-> NoLoader,
              test |-> NoLoader]
NoSplits  == [train |-> {}, valid |-> {}, test |-> {}]
NoDigits  == [source |-> [train |-> <<>>, test |-> <<>>],
              target |-> [train |-> <<>>, test |-> <<>>]]
NoMultiDomain ==
    [source |-> "", target |-> "", root |-> "", weight_type |-> "",
     size_type |-> "", valid_split_ratio |-> 0, class_ids |-> {},
     prepared |-> FALSE, by_split |-> [r \in Runs |-> NoSplits]]

Init ==
    /\ nb \in Notebooks
    /\ pc = 1
    /\ phase = "idle"
    /\ failedAt = "none"
    /\ log = <<>>
    /\ colab \in BOOLEAN
    /\ cuda \in BOOLEAN
    \* Colab starts in /content without pykale; a local kernel starts in the
    \* example's directory or elsewhere, with pykale installed or not
    /\ installed \in (IF colab THEN {FALSE} ELSE BOOLEAN)
    /\ cloned = FALSE
    /\ cwd \in (IF colab THEN {<<"content">>}
                         ELSE {<<"home">>, <<"home">> \o ExampleDir(nb)})
    /\ printed = <<>>
    /\ yamlExists \in BOOLEAN
    /\ yaml \in YamlFiles(nb)
    /\ cfg = NoCfg
    /\ merged = NoCfg.node
    /\ rng = [r \in Runs |-> 0]
    /\ entropy = "unset"
    /\ seeded = FALSE
    /\ unseededDraws = 0
    /\ seed = -1
    /\ device = "unset"
    /\ gpus = "unset"
    /\ train_size = 0 /\ valid_size = 0 /\ test_size = 0
    /\ train_sample_indices = NoIndices
    /\ valid_sample_indices = NoIndices
    /\ test_sample_indices = NoIndices
    /\ train_dataset = NoDataset
    /\ valid_dataset = NoDataset
    /\ test_dataset = NoDataset
    /\ train_loader = NoLoader
    /\ valid_loader = NoLoader
    /\ test_loader = NoLoader
    /\ digits = NoDigits
    /\ dataset = NoMultiDomain
    /\ model = [built |-> FALSE, weights |-> [r \in Runs |-> 0]]
    /\ tb_logger = NoLogger
    /\ callbacks = {}
    /\ trainer = NoTrainer
    /\ fit_args = NoArgs
    /\ test_args = NoArgs
    /\ reports = <<>>

\* a cell that ran to its end: run-all goes on with the next cell
Finish(c) ==
    /\ pc' = pc + 1
    /\ log' = Ran(c)
    /\ UNCHANGED <<nb, phase, failedAt>>

\* a cell that raised: run-all stops, the later cells are not executed
Raise(c) ==
    /\ failedAt' = c
    /\ log' = Raised(c)
    /\ UNCHANGED <<nb, pc, phase>>

----------------------------------------------------------------------------
(* Setup cells *)

\* the pip install, git clone and %cd without the test for Colab around them
ColabCellUnguarded ==
    /\ Running /\ Current = "colab"
    /\ printed' = Append(printed, "Running on CoLab")
    /\ installed' = TRUE
    /\ cloned' = TRUE
    /\ cwd' = cwd \o ExampleDir(nb)
    /\ Finish("colab")
    /\ UNCHANGED <<colab, cuda, cfgVars, rngVars, seed, device, gpus, dtaVars,
                   dannVars, runVars>>

\* if 'google.colab' in str(get_ipython()): pip install, git clone, %cd
ColabCell ==
    /\ Running /\ Current = "colab"
    /\ IF colab
       THEN /\ printed' = Append(printed, "Running on CoLab")
            /\ installed' = TRUE
            /\ cloned' = TRUE
            /\ cwd' = cwd \o ExampleDir(nb)
       ELSE /\ printed' = Append(printed, "Not running on CoLab")
            /\ UNCHANGED <<installed, cloned, cwd>>
    /\ Finish("colab")
    /\ UNCHANGED <<colab, cuda, cfgVars, rngVars, seed, device, gpus, dtaVars,
                   dannVars, runVars>>

\* import torch, pytorch_lightning, kale; from config import get_cfg_defaults;
\* from model import get_model.  Importing torch seeds its generator from the
\* system's entropy.
ImportsCell ==
    /\ Running /\ Current = "imports"
    /\ IF installed /\ InExampleDir
       THEN /\ rng' \in [Runs -> RngStates]
            /\ entropy' = IF \A r \in Runs : rng'[r] = rng'[1] THEN "same" ELSE "different"
            /\ Finish("imports")
       ELSE /\ Raise("imports")
            /\ UNCHANGED <<rng, entropy>>
    /\ UNCHANGED <<envVars, cfgVars, seeded, unseededDraws, seed, device, gpus,
                   dtaVars, dannVars, runVars>>

\* a cell that wraps the merge in try/except and goes on with the defaults
ConfigCellOnErrorCaught ==
    /\ cfg' = Freeze(get_cfg_defaults(nb))
    /\ merged' = cfg'.node
    /\ Finish("config")
    /\ UNCHANGED <<printed, seed, rng, seeded>>

\* merge_from_file raises (no such file): nothing in the cell catches it, so
\* the cell ends there, with cfg the unfrozen defaults
ConfigCellOnError ==
    /\ cfg' = get_cfg_defaults(nb)
    /\ Raise("config")
    /\ UNCHANGED <<merged, printed, seed, rng, seeded>>

\* cfg = get_cfg_defaults(); cfg.merge_from_file(cfg_path); cfg.freeze();
\* print(cfg); and in the DeepDTA notebook set_seed(cfg.SOLVER.SEED)
ConfigCell ==
    /\ Running /\ Current = "config"
    /\ IF yamlExists /\ InExampleDir
       THEN /\ cfg' = LoadConfig(nb, yaml)
            /\ merged' = cfg'.node
            /\ printed' = Append(printed, "cfg")
            /\ IF nb = "deepdta"
               THEN /\ seed' = cfg'.node.SOLVER.SEED
                    /\ rng' = SeedSet(seed', rng)
                    /\ seeded' = TRUE
               ELSE UNCHANGED <<seed, rng, seeded>>
            /\ Finish("config")
       ELSE ConfigCellOnError
    /\ UNCHANGED <<colab, cuda, installed, cloned, cwd, yamlExists, yaml,
                   unseededDraws, entropy, device, gpus, dtaVars, dannVars, runVars>>

\* gpus = 1 if device == "cuda" else 0     (DeepDTA)
GpusDeepDTA(dev) == IF dev = "cuda" THEN "1" ELSE "0"

\* gpus = 1 if device == "cuda" else None  (DANN)
GpusDann(dev) == IF dev = "cuda" THEN "1" ELSE "None"

\* device = "cuda" if torch.cuda.is_available() else "cpu"
GpuCell ==
    /\ Running /\ Current = "gpu"
    /\ device' = IF cuda THEN "cuda" ELSE "cpu"
    /\ printed' = Append(printed, device')
    /\ gpus' = IF nb = "deepdta" THEN GpusDeepDTA(device') ELSE GpusDann(device')
    /\ Finish("gpu")
    /\ UNCHANGED <<colab, cuda, installed, cloned, cwd, cfgVars, rngVars, seed,
                   dtaVars, dannVars, runVars>>

----------------------------------------------------------------------------
(* DeepDTA: BindingDB splits, subsets and data loaders *)

\* train_subset_size, valid_subset_size, test_subset_size = 8000, 1000, 1000
train_subset_size == 8000
valid_subset_size == 1000
test_subset_size == 1000

\* the sizes of the train, valid and test split of the dataset on disk
Offsets == (0 - SizeSlack) .. SizeSlack
SplitSizes ==
    {<<train_subset_size + d, valid_subset_size + d, test_subset_size + d>> :
        d \in Offsets}
    \cup {<<train_subset_size + d, valid_subset_size, test_subset_size>> :
        d \in Offsets}
    \cup {<<train_subset_size, valid_subset_size + d, test_subset_size>> :
        d \in Offsets}
    \cup {<<train_subset_size, valid_subset_size, test_subset_size + d>> :
        d \in Offsets}

\* the split each BindingDBDataset(...) call asks for -- test from the train split
DatasetSplitsTestFromTrain == [train |-> "train", valid |-> "valid", test |-> "train"]

\* the split each BindingDBDataset(...) call asks for
DatasetSplits == [train |-> "train", valid |-> "valid", test |-> "test"]

\* BindingDBDataset(name=, split=, path=): one split, of n samples
BindingDBDataset(name, split, path, n) ==
    [name |-> name, split |-> split, path |-> path, size |-> n, indices |-> ""]

\* torch.randperm(size)[:subset_size].tolist() -- sampling with replacement
SampleIndicesRepeating(size, subset_size, g) ==
    [i \in 1..subset_size |-> IF size = 0 THEN 0 ELSE g % size]

\* torch.randperm(size)[:subset_size].tolist() -- the whole permutation
SampleIndicesAll(size, subset_size, g) == RandPerm(size, g)

\* torch.randperm(size)[:subset_size].tolist()
SampleIndices(size, subset_size, g) == Take(RandPerm(size, g), subset_size)

\* Subset(dataset, indices): the samples of dataset at the listed indices; the
\* list is named, not copied
Subset(d, indices) == [d EXCEPT !.indices = indices]

\* the index list of a Subset in execution r
IndicesOf(d, r) ==
    CASE d.indices = "train_sample_indices" -> train_sample_indices[r]
      [] d.indices = "valid_sample_indices" -> valid_sample_indices[r]
      [] d.indices = "test_sample_indices"  -> test_sample_indices[r]
      [] OTHER -> [i \in 1..d.size |-> i - 1]

\* len(dataset)
LenOf(d, r) == Len(IndicesOf(d, r))

DataLoader(d, shuffle, batch_size) ==
    [dataset |-> d, shuffle |-> shuffle, batch_size |-> batch_size]

\* the three BindingDBDataset(...), the three index lists drawn one after the
\* other from the generator, the three Subset(...)
DatasetsCellDeepDTA ==
    /\ Running /\ Current = "datasets" /\ nb = "deepdta"
    /\ \E sz \in SplitSizes :
        /\ train_size' = sz[1] /\ valid_size' = sz[2] /\ test_size' = sz[3]
        /\ train_sample_indices' =
              [r \in Runs |-> SampleIndices(sz[1], train_subset_size, rng[r])]
        /\ valid_sample_indices' =
              [r \in Runs |-> SampleIndices(sz[2], valid_subset_size, NextRng(rng[r]))]
        /\ test_sample_indices' =
              [r \in Runs |->
                  SampleIndices(sz[3], test_subset_size, NextRng(NextRng(rng[r])))]
        /\ train_dataset' =
              Subset(BindingDBDataset(cfg.node.DATASET.NAME, DatasetSplits.train,
                                      cfg.node.DATASET.PATH, sz[1]),
                     "train_sample_indices")
        /\ valid_dataset' =
              Subset(BindingDBDataset(cfg.node.DATASET.NAME, DatasetSplits.valid,
                                      cfg.node.DATASET.PATH, sz[2]),
                     "valid_sample_indices")
        /\ test_dataset' =
              Subset(BindingDBDataset(cfg.node.DATASET.NAME, DatasetSplits.test,
                                      cfg.node.DATASET.PATH, sz[3]),
                     "test_sample_indices")
    /\ rng' = [r \in Runs |-> NextRng(NextRng(NextRng(rng[r])))]
    /\ unseededDraws' = unseededDraws + (IF seeded THEN 0 ELSE 3)
    /\ Finish("datasets")
    /\ UNCHANGED <<envVars, cfgVars, seeded, entropy, seed, device, gpus, train_loader,
                   valid_loader, test_loader, dannVars, runVars>>

\* cfg.DATASET.PATH: the cell displays the value
ShowPathCell ==
    /\ Running /\ Current = "showpath"
    /\ printed' = Append(printed, cfg.node.DATASET.PATH)
    /\ Finish("showpath")
    /\ UNCHANGED <<colab, cuda, installed, cloned, cwd, cfgVars, rngVars, seed,
                   device, gpus, dtaVars, dannVars, runVars>>

\* train_loader, valid_loader, test_loader = DataLoader(...)
LoadersCell ==
    /\ Running /\ Current = "loaders"
    /\ train_loader' = DataLoader(train_dataset, TRUE, cfg.node.SOLVER.TRAIN_BATCH_SIZE)
    /\ valid_loader' = DataLoader(valid_dataset, TRUE, cfg.node.SOLVER.TEST_BATCH_SIZE)
    /\ test_loader' = DataLoader(test_dataset, TRUE, cfg.node.SOLVER.TEST_BATCH_SIZE)
    /\ Finish("loaders")
    /\ UNCHANGED <<envVars, cfgVars, rngVars, seed, device, gpus, train_size,
                   valid_size, test_size, train_sample_indices,
                   valid_sample_indices, test_sample_indices, train_dataset,
                   valid_dataset, test_dataset, dannVars, runVars>>

----------------------------------------------------------------------------
(* DANN: the digit datasets, MultiDomainDatasets, set_seed *)

Domains == {"source", "target"}

\* the labels of the images of one part of a digit dataset
Labels(off) == [i \in 1..DigitsPerPart |-> (i + off) % 10]
LabelOffsets == {0, 2, 7}

\* str.upper() of the dataset names the configuration may hold
Upper(name) ==
    CASE name = "mnist" -> "MNIST"
      [] name = "usps"  -> "USPS"
      [] OTHER -> name

\* class_subset -- no subset given (class_ids=None: all classes)
AllClasses == 0..9

\* class_subset = [1, 3, 8]
class_subset == {1, 3, 8}

\* MultiDomainDatasets(source, target, config_weight_type=, config_size_type=,
\*                     valid_split_ratio=, class_ids=): nothing is loaded yet
MultiDomainDatasets(source, target, root, weight_type, size_type, ratio, class_ids) ==
    [source |-> source, target |-> target, root |-> root,
     weight_type |-> weight_type, size_type |-> size_type,
     valid_split_ratio |-> ratio, class_ids |-> class_ids,
     prepared |-> FALSE, by_split |-> [r \in Runs |-> NoSplits]]

\* the label of image <<domain, part, index>>
Label(x) == digits[x[1]][x[2]][x[3] + 1]

\* get_class_subset: the images whose label is one of class_ids
ClassFilter(xs, class_ids) == {x \in xs : Label(x) \in class_ids}

\* the images of domain d that a run whose generator is in state g puts in
\* the train and in the valid split: a random split of the train part
TrainValid(d, ratio, g) ==
    LET n    == Len(digits[d].train)
        nv   == (n * ratio) \div 100
        perm == RandPerm(n, g)
    IN  [train |-> {<<d, "train", perm[i]>> : i \in 1..(n - nv)},
         valid |-> {<<d, "train", perm[i]>> : i \in (n - nv + 1)..n}]

\* MultiDomainDatasets.prepare_data_loaders: train and valid are a random split
\* of the train part of each domain, test is its test part; with class_ids,
\* every split keeps only the images of those classes
PrepareDataLoaders(ds, g) ==
    LET src == TrainValid("source", ds.valid_split_ratio, g)
        tgt == TrainValid("target", ds.valid_split_ratio, NextRng(g))
        tst == {<<d, "test", i - 1>> : d \in Domains, i \in 1..DigitsPerPart}
    IN  [train |-> ClassFilter(src.train \cup tgt.train, ds.class_ids),
         valid |-> ClassFilter(src.valid \cup tgt.valid, ds.class_ids),
         test  |-> ClassFilter({x \in tst : x[3] < Len(digits[x[1]].test)},
                               ds.class_ids)]

\* source, target, num_channels = DigitDataset.get_source_target(...);
\* class_subset = [1, 3, 8]; dataset = MultiDomainDatasets(...)
DatasetsCellDann ==
    /\ Running /\ Current = "datasets" /\ nb = "dann"
    /\ \E os \in LabelOffsets, ot \in LabelOffsets :
        digits' = [source |-> [train |-> Labels(os), test |-> Labels(os + 1)],
                   target |-> [train |-> Labels(ot), test |-> Labels(ot + 1)]]
    /\ dataset' = MultiDomainDatasets(Upper(cfg.node.DATASET.SOURCE),
                                      Upper(cfg.node.DATASET.TARGET),
                                      cfg.node.DATASET.ROOT,
                                      cfg.node.DATASET.WEIGHT_TYPE,
                                      cfg.node.DATASET.SIZE_TYPE,
                                      cfg.node.DATASET.VALID_SPLIT_RATIO,
                                      class_subset)
    /\ Finish("datasets")
    /\ UNCHANGED <<envVars, cfgVars, rngVars, seed, device, gpus, dtaVars, runVars>>

\* seed = cfg.SOLVER.SEED; set_seed(seed)
SeedCell ==
    /\ Running /\ Current = "seed"
    /\ seed' = cfg.node.SOLVER.SEED
    /\ rng' = SeedSet(seed', rng)
    /\ seeded' = TRUE
    /\ Finish("seed")
    /\ UNCHANGED <<envVars, cfgVars, unseededDraws, entropy, device, gpus, dtaVars,
                   dannVars, runVars>>

----------------------------------------------------------------------------
(* Model, logger, callbacks, trainer *)

\* model = get_model(cfg)                              (DeepDTA)
\* model, train_params = get_model(cfg, dataset, num_channels)   (DANN; it also
\* loads the data: MultiDomainDatasets.prepare_data_loaders)
\* The weights are initialised from the generator.  get_model is handed the
\* CfgNode itself: an assignment to one of its keys is what CfgNode.__setattr__
\* makes of it.
ModelCell ==
    /\ Running /\ Current = "model"
    /\ \E assigns \in BOOLEAN :
        IF assigns /\ SetAttrRejected(cfg)
        THEN /\ cfg' = SetAttr(cfg, "SOLVER", "SEED", cfg.node.SOLVER.SEED + 1)
             /\ printed' = Append(printed, "AttributeError")
             /\ Raise("model")
             /\ UNCHANGED <<rng, unseededDraws, dataset, model>>
        ELSE /\ printed' = printed
             /\ cfg' = IF assigns
                       THEN SetAttr(cfg, "SOLVER", "SEED", cfg.node.SOLVER.SEED + 1)
                       ELSE cfg
             /\ IF nb = "dann"
                THEN /\ dataset' =
                          [dataset EXCEPT
                              !.prepared = TRUE,
                              !.by_split = [r \in Runs |->
                                  PrepareDataLoaders(dataset, rng[r])]]
                     /\ model' = [built |-> TRUE,
                                  weights |-> [r \in Runs |-> NextRng(NextRng(rng[r]))]]
                     /\ rng' = [r \in Runs |-> NextRng(NextRng(NextRng(rng[r])))]
                     /\ unseededDraws' = unseededDraws + (IF seeded THEN 0 ELSE 3)
                ELSE /\ model' = [built |-> TRUE, weights |-> rng]
                     /\ rng' = [r \in Runs |-> NextRng(rng[r])]
                     /\ unseededDraws' = unseededDraws + (IF seeded THEN 0 ELSE 1)
                     /\ UNCHANGED dataset
             /\ Finish("model")
    /\ UNCHANGED <<colab, cuda, installed, cloned, cwd, yamlExists, yaml, merged,
                   seeded, entropy, seed, device, gpus, dtaVars, digits, tb_logger,
                   callbacks, trainer, fit_args, test_args, reports>>

\* TensorBoardLogger(save_dir, name=)
TensorBoardLogger(save_dir, name) == [save_dir |-> save_dir, name |-> name]

\* tb_logger = TensorBoardLogger("tb_logs", name=cfg.DATASET.NAME)          (DeepDTA)
\* tb_logger = TensorBoardLogger(cfg.OUTPUT.TB_DIR, name="seed{}".format(seed))  (DANN)
LoggerCell ==
    /\ Running /\ Current = "logger"
    /\ tb_logger' = IF nb = "deepdta"
                    THEN TensorBoardLogger("tb_logs", <<cfg.node.DATASET.NAME>>)
                    ELSE TensorBoardLogger(cfg.node.OUTPUT.TB_DIR, <<"seed", seed>>)
    /\ Finish("logger")
    /\ UNCHANGED <<envVars, cfgVars, rngVars, seed, device, gpus, dtaVars,
                   dannVars, model, callbacks, trainer, fit_args, test_args, reports>>

\* checkpoint_callback = ModelCheckpoint(filename=..., monitor="valid_loss", mode="min")
CheckpointCell ==
    /\ Running /\ Current = "checkpoint"
    /\ callbacks' = callbacks \cup {"ModelCheckpoint"}
    /\ Finish("checkpoint")
    /\ UNCHANGED <<envVars, cfgVars, rngVars, seed, device, gpus, dtaVars,
                   dannVars, model, tb_logger, trainer, fit_args, test_args, reports>>

\* progress_bar = TQDMProgressBar(cfg.OUTPUT.PB_FRESH)
ProgressCell ==
    /\ Running /\ Current = "progress"
    /\ callbacks' = callbacks \cup {"TQDMProgressBar"}
    /\ Finish("progress")
    /\ UNCHANGED <<envVars, cfgVars, rngVars, seed, device, gpus, dtaVars,
                   dannVars, model, tb_logger, trainer, fit_args, test_args, reports>>

\* callbacks=[...] -- with an early-stopping callback among them
TrainerCallbacksEarlyStopping(n) ==
    IF n = "deepdta" THEN {"ModelCheckpoint", "EarlyStopping"}
                     ELSE {"ModelCheckpoint", "TQDMProgressBar", "EarlyStopping"}

\* callbacks=[checkpoint_callback]  /  callbacks=[checkpoint_callback, progress_bar]
TrainerCallbacks(n) ==
    IF n = "deepdta" THEN {"ModelCheckpoint"}
                     ELSE {"ModelCheckpoint", "TQDMProgressBar"}

\* pl.Trainer(min_epochs=, max_epochs=, gpus=, logger=, callbacks=)
PlTrainer(min_epochs, max_epochs, g, logger, cbs) ==
    [built |-> TRUE, min_epochs |-> min_epochs, max_epochs |-> max_epochs,
     gpus |-> g, logger |-> logger, callbacks |-> cbs, current_epoch |-> 0,
     should_stop |-> FALSE, fitted |-> FALSE]

\* trainer = pl.Trainer(min_epochs=cfg.SOLVER.MIN_EPOCHS,
\*                      max_epochs=cfg.SOLVER.MAX_EPOCHS, gpus=gpus,
\*                      logger=tb_logger, callbacks=[...])
\* (in the DeepDTA notebook the cell first makes the ModelCheckpoint)
TrainerCell ==
    /\ Running /\ Current = "trainer"
    /\ callbacks' = IF nb = "deepdta" THEN callbacks \cup {"ModelCheckpoint"}
                                      ELSE callbacks
    /\ trainer' = PlTrainer(cfg.node.SOLVER.MIN_EPOCHS, cfg.node.SOLVER.MAX_EPOCHS,
                            gpus, tb_logger, TrainerCallbacks(nb))
    /\ Finish("trainer")
    /\ UNCHANGED <<envVars, cfgVars, rngVars, seed, device, gpus, dtaVars,
                   dannVars, model, tb_logger, fit_args, test_args, reports>>

----------------------------------------------------------------------------
(* trainer.fit and trainer.test *)

\* trainer.fit(model, train_dataloader=test_loader, ...) -- fitting on the test data
FitArgsOnTestData ==
    [called |-> TRUE, train |-> test_loader, valid |-> valid_loader,
     test |-> NoLoader]

\* trainer.fit(model, train_dataloader=train_loader, val_dataloaders=valid_loader)
FitArgs ==
    [called |-> TRUE, train |-> train_loader, valid |-> valid_loader,
     test |-> NoLoader]

\* trainer.test(test_dataloaders=test_loader)
TestArgs ==
    [called |-> TRUE, train |-> NoLoader, valid |-> NoLoader,
     test |-> test_loader]

\* trainer.fit(model) and trainer.test(): the model's own loaders are used
OwnLoaders == [NoArgs EXCEPT !.called = TRUE]

\* the fit loop is over: max_epochs are done, or a stop was asked for and
\* min_epochs are done
FitDone(t) ==
    \/ t.current_epoch >= t.max_epochs
    \/ t.should_stop /\ t.current_epoch >= t.min_epochs

\* %time trainer.fit(...): the call starts
FitCell ==
    /\ Running /\ Current = "fit"
    /\ phase' = "fitting"
    /\ log' = Append(log, <<"start", "fit">>)
    /\ fit_args' = IF nb = "deepdta" THEN FitArgs ELSE OwnLoaders
    /\ trainer' = [trainer EXCEPT !.current_epoch = 0, !.should_stop = FALSE]
    /\ UNCHANGED <<nb, pc, failedAt, envVars, cfgVars, rngVars, seed, device,
                   gpus, dtaVars, dannVars, model, tb_logger, callbacks,
                   test_args, reports>>

\* one epoch of training and validation: the batches are shuffled with the
\* generator; an EarlyStopping callback, when the trainer has one, may ask
\* for a stop
FitEpoch ==
    /\ failedAt = "none" /\ phase = "fitting"
    /\ ~FitDone(trainer)
    /\ \E stop \in (IF "EarlyStopping" \in trainer.callbacks THEN BOOLEAN ELSE {FALSE}) :
        trainer' = [trainer EXCEPT !.current_epoch = @ + 1, !.should_stop = stop]
    /\ model' = [model EXCEPT !.weights =
                    [r \in Runs |-> (model.weights[r] + rng[r] + 1) % RngMod]]
    /\ rng' = [r \in Runs |-> NextRng(rng[r])]
    /\ unseededDraws' = unseededDraws + (IF seeded THEN 0 ELSE 1)
    /\ UNCHANGED <<nb, pc, phase, failedAt, log, envVars, cfgVars, seeded, entropy, seed,
                   device, gpus, dtaVars, dannVars, tb_logger, callbacks,
                   fit_args, test_args, reports>>

\* trainer.fit returns
FitReturn ==
    /\ failedAt = "none" /\ phase = "fitting"
    /\ FitDone(trainer)
    /\ trainer' = [trainer EXCEPT !.fitted = TRUE]
    /\ phase' = "idle"
    /\ pc' = pc + 1
    /\ log' = Append(log, <<"end", "fit">>)
    /\ UNCHANGED <<nb, failedAt, envVars, cfgVars, rngVars, seed, device, gpus,
                   dtaVars, dannVars, model, tb_logger, callbacks, fit_args,
                   test_args, reports>>

\* trainer.fit raises (out of memory, ...)
FitRaises ==
    /\ failedAt = "none" /\ phase = "fitting"
    /\ failedAt' = "fit"
    /\ log' = Append(log, <<"raise", "fit">>)
    /\ UNCHANGED <<nb, pc, phase, envVars, cfgVars, rngVars, seed, device, gpus,
                   dtaVars, dannVars, runVars>>

\* the metrics trainer.test reports
MetricNames(n) ==
    IF n = "deepdta" THEN {"test_loss"}
    ELSE {"test_domain_acc", "test_source_acc", "test_target_acc", "test_loss"}

\* trainer.test(test_dataloaders=test_loader)  /  %time trainer.test():
\* the fitted model is evaluated and its metrics are reported; a trainer that
\* has fitted no model has none to test
TestCell ==
    /\ Running /\ Current = "test"
    /\ IF trainer.fitted
       THEN /\ test_args' = IF nb = "deepdta" THEN TestArgs ELSE OwnLoaders
            /\ reports' = Append(reports, [names |-> MetricNames(nb),
                                           values |-> model.weights])
            /\ Finish("test")
       ELSE /\ Raise("test")
            /\ UNCHANGED <<test_args, reports>>
    /\ UNCHANGED <<envVars, cfgVars, rngVars, seed, device, gpus, dtaVars,
                   dannVars, model, tb_logger, callbacks, trainer, fit_args>>

\* a cell raises for a reason outside the notebook (no data, out of memory)
CellRaises ==
    /\ Running /\ Current \in {"datasets", "model", "trainer", "test"}
    /\ Raise(Current)
    /\ UNCHANGED <<envVars, cfgVars, rngVars, seed, device, gpus, dtaVars,
                   dannVars, runVars>>

----------------------------------------------------------------------------
Next ==
    \/ ColabCell
    \/ ImportsCell
    \/ ConfigCell
    \/ GpuCell
    \/ DatasetsCellDeepDTA
    \/ ShowPathCell
    \/ LoadersCell
    \/ DatasetsCellDann
    \/ SeedCell
    \/ ModelCell
    \/ LoggerCell
    \/ CheckpointCell
    \/ ProgressCell
    \/ TrainerCell
    \/ FitCell
    \/ FitEpoch
    \/ FitReturn
    \/ FitRaises
    \/ TestCell
    \/ CellRaises

Spec == Init /\ [][Next]_vars

\* run-all keeps executing: a cell that can run does run
FairSpec == Spec /\ WF_vars(Next)

----------------------------------------------------------------------------
(* Properties *)

\* the cell has started / has run to its end, by position j of the log
StartedBy(c, j) == \E i \in 1..j : log[i] = <<"start", c>>
EndedBy(c, j)   == \E i \in 1..j : log[i] = <<"end", c>>
Started(c) == StartedBy(c, Len(log))
Ended(c)   == EndedBy(c, Len(log))

\* The seven steps of a run, in order; the GPU check and the DANN notebook's
\* set_seed cell are cells of their own between them (step 0).
StepOf(c) ==
    CASE c \in {"colab", "imports"} -> 1                     \* environment check
      [] c = "config" -> 2                                   \* config load
      [] c \in {"datasets", "showpath", "loaders"} -> 3      \* dataset split/subsetting
      [] c = "model" -> 4                                    \* model build
      [] c \in {"logger", "checkpoint", "progress", "trainer"} -> 5  \* logger/trainer setup
      [] c = "fit" -> 6
      [] c = "test" -> 7
      [] OTHER -> 0

CellsOf(n) == {Cells(n)[i] : i \in 1..Len(Cells(n))}

\* C1: in a run-all execution the steps happen in the order environment check,
\* config load, dataset split/subsetting, model build, logger/trainer setup,
\* fit, test: a cell starts only when every cell of an earlier step has run to
\* its end and no cell is still running, no cell starts twice, test starts
\* only after fit has returned, and fit starts only with the configuration
\* merged and frozen.
C1_StepOrder ==
    /\ \A j \in 1..Len(log) :
        log[j][1] = "start" =>
            LET c == log[j][2] IN
            /\ \A d \in CellsOf(nb) :
                  (0 < StepOf(d) /\ StepOf(d) < StepOf(c)) => EndedBy(d, j - 1)
            /\ j > 1 => log[j - 1][1] = "end"
            /\ \A i \in 1..Len(log) : log[i] = log[j] => i = j
            /\ c = "test" => EndedBy("fit", j - 1)
            /\ c = "fit" => EndedBy("config", j - 1)
    /\ Started("fit") => (cfg.frozen /\ cfg.node = merged /\ merged # NoCfg.node)

C1_Witness == nb = "deepdta" /\ Ended("test")

\* the values the later cells read from cfg are those of the merged configuration
ReadsMerged ==
    /\ seeded => seed = merged.SOLVER.SEED
    /\ trainer.built =>
          /\ trainer.min_epochs = merged.SOLVER.MIN_EPOCHS
          /\ trainer.max_epochs = merged.SOLVER.MAX_EPOCHS
    /\ (nb = "deepdta" /\ Ended("datasets")) =>
          \A d \in {train_dataset, valid_dataset, test_dataset} :
              d.name = merged.DATASET.NAME /\ d.path = merged.DATASET.PATH
    /\ (nb = "deepdta" /\ Ended("loaders")) =>
          /\ train_loader.batch_size = merged.SOLVER.TRAIN_BATCH_SIZE
          /\ valid_loader.batch_size = merged.SOLVER.TEST_BATCH_SIZE
          /\ test_loader.batch_size = merged.SOLVER.TEST_BATCH_SIZE
    /\ (nb = "deepdta" /\ Ended("logger")) =>
          tb_logger.name = <<merged.DATASET.NAME>>
    /\ (nb = "dann" /\ Ended("datasets")) =>
          /\ dataset.root = merged.DATASET.ROOT
          /\ dataset.valid_split_ratio = merged.DATASET.VALID_SPLIT_RATIO
          /\ dataset.weight_type = merged.DATASET.WEIGHT_TYPE
          /\ dataset.size_type = merged.DATASET.SIZE_TYPE
    /\ (nb = "dann" /\ Ended("logger")) =>
          /\ tb_logger.save_dir = merged.OUTPUT.TB_DIR
          /\ tb_logger.name = <<"seed", merged.SOLVER.SEED>>

\* C2: once cfg.freeze() has returned, the configuration stays frozen and
\* every key keeps the value it had after merge_from_file, every later cell
\* reads those values, and an assignment to a key is rejected (the cell that
\* made it raises) and leaves the configuration as it was.
C2_FrozenAfterMerge ==
    Ended("config") =>
        /\ cfg.frozen
        /\ cfg.node = merged
        /\ ReadsMerged

C2_Witness ==
    /\ Ended("config") /\ failedAt = "model"
    /\ printed # <<>> /\ printed[Len(printed)] = "AttributeError"

\* C3: the merged configuration is the defaults overridden by the file: a key
\* the file specifies has the file's value, every other key of the defaults
\* has its default, and there are no other keys.
C3_MergeOverridesDefaults ==
    Ended("config") =>
        LET dflt == get_cfg_defaults(nb).node IN
        /\ DOMAIN cfg.node = DOMAIN dflt
        /\ \A s \in DOMAIN dflt :
            /\ DOMAIN cfg.node[s] = DOMAIN dflt[s]
            /\ \A k \in DOMAIN dflt[s] :
                cfg.node[s][k] = IF s \in DOMAIN yaml /\ k \in DOMAIN yaml[s]
                                 THEN yaml[s][k]
                                 ELSE dflt[s][k]

C3_Witness ==
    /\ Ended("config") /\ nb = "deepdta"
    /\ cfg.node.SOLVER.MAX_EPOCHS # get_cfg_defaults(nb).node.SOLVER.MAX_EPOCHS
    /\ cfg.node.SOLVER.SEED = get_cfg_defaults(nb).node.SOLVER.SEED

\* the configuration file cannot be read from where the notebook runs
BadConfigPath == ~(yamlExists /\ InExampleDir)

\* a cell that raised is the last thing that happened: it raised once, was
\* started once, and run-all still points at it
FailureStops ==
    failedAt # "none" =>
        /\ log # <<>> /\ log[Len(log)] = <<"raise", failedAt>>
        /\ \A i \in 1..Len(log) : log[i][1] = "raise" => i = Len(log)
        /\ \A i, j \in 1..Len(log) : log[i] = <<"start", failedAt>> /\ log[j] = log[i] => i = j
        /\ Current = failedAt
        /\ ~Ended(failedAt)

C5_AsStated ==
    (nb = "deepdta" /\ Ended("loaders")) =>
        \A r \in Runs :
            /\ LenOf(train_loader.dataset, r) = 8000
            /\ LenOf(valid_loader.dataset, r) = 1000
            /\ LenOf(test_loader.dataset, r) = 1000

\* C5, amended: the subsets handed to the data loaders hold exactly 8000, 1000
\* and 1000 samples when the train, valid and test split hold at least that
\* many; a split that holds fewer is handed over whole.
C5_SubsetSizes ==
    (nb = "deepdta" /\ Ended("loaders")) =>
        \A r \in Runs :
            /\ LenOf(train_loader.dataset, r) = IF train_size >= 8000 THEN 8000 ELSE train_size
            /\ LenOf(valid_loader.dataset, r) = IF valid_size >= 1000 THEN 1000 ELSE valid_size
            /\ LenOf(test_loader.dataset, r) = IF test_size >= 1000 THEN 1000 ELSE test_size

C5_Witness ==
    /\ nb = "deepdta" /\ Ended("loaders")
    /\ train_size > 8000 /\ valid_size > 1000 /\ test_size > 1000
    /\ LenOf(train_loader.dataset, 1) = 8000

\* two datasets share no sample: they are parts of different splits, or
\* their index lists have no index in common
NoCommonSample(d1, d2, r) ==
    \/ d1.split # d2.split
    \/ \A i \in 1..LenOf(d1, r) : \A j \in 1..LenOf(d2, r) :
          IndicesOf(d1, r)[i] # IndicesOf(d2, r)[j]

\* the images an execution hands to trainer.fit and to trainer.test (DANN)
FitSamples(r) == dataset.by_split[r].train \cup dataset.by_split[r].valid
TestSamples(r) == dataset.by_split[r].test

\* C6: the test data is not used in training.  DeepDTA: what fit is handed is
\* the train subset (to optimise) and the valid subset (to validate), what
\* test is handed is the test subset, the three subsets come from three
\* different splits, and no sample of the test subset is among those fit was
\* handed.  DANN: fit and test are handed no loaders of their own, and the
\* train and valid images (from the train part of the source and target
\* datasets) are disjoint from the test images (from the test part).
C6_TestDataNotInTraining ==
    /\ (nb = "deepdta" /\ fit_args.called) =>
          /\ Cardinality({train_dataset.split, valid_dataset.split, test_dataset.split}) = 3
          /\ fit_args.train.dataset = train_dataset
          /\ fit_args.valid.dataset = valid_dataset
          /\ train_dataset.split = "train" /\ train_dataset.indices = "train_sample_indices"
          /\ valid_dataset.split = "valid" /\ valid_dataset.indices = "valid_sample_indices"
          /\ \A r \in Runs :
                /\ NoCommonSample(fit_args.train.dataset, test_dataset, r)
                /\ NoCommonSample(fit_args.valid.dataset, test_dataset, r)
    /\ (nb = "deepdta" /\ test_args.called) =>
          /\ test_args.test.dataset = test_dataset
          /\ test_dataset.split = "test" /\ test_dataset.indices = "test_sample_indices"
          /\ \A r \in Runs :
                /\ NoCommonSample(fit_args.train.dataset, test_args.test.dataset, r)
                /\ NoCommonSample(fit_args.valid.dataset, test_args.test.dataset, r)
    /\ (nb = "dann" /\ fit_args.called) =>
          /\ fit_args = OwnLoaders
          /\ test_args.called => test_args = OwnLoaders
          /\ \A r \in Runs :
                /\ \A x \in FitSamples(r) : x[2] = "train"
                /\ \A x \in TestSamples(r) : x[2] = "test"
                /\ FitSamples(r) \cap TestSamples(r) = {}

C6_Witness ==
    /\ nb = "deepdta" /\ test_args.called
    /\ LenOf(fit_args.train.dataset, 1) > 0 /\ LenOf(test_args.test.dataset, 1) > 0

\* C7: setting the seed makes a run reproducible.  Two executions of the same
\* notebook on the same configuration and data, whatever entropy their
\* generators started from, have the same generator state from set_seed on,
\* draw the same subset indices (DeepDTA: those the seed determines) and data
\* splits (DANN), and have the same weights and metrics at every later step;
\* no draw is made before set_seed.
C7_SeedReproducible ==
    /\ unseededDraws = 0
    /\ seeded => \A r \in Runs : rng[r] = rng[1]
    /\ \A r \in Runs :
        /\ train_sample_indices[r] = train_sample_indices[1]
        /\ valid_sample_indices[r] = valid_sample_indices[1]
        /\ test_sample_indices[r] = test_sample_indices[1]
        /\ dataset.by_split[r] = dataset.by_split[1]
        /\ model.weights[r] = model.weights[1]
        /\ \A i \in 1..Len(reports) : reports[i].values[r] = reports[i].values[1]
    /\ (nb = "deepdta" /\ Ended("datasets")) =>
          \A r \in Runs :
              train_sample_indices[r] =
                  Take(RandPerm(train_size, SeedState(merged.SOLVER.SEED)), 8000)

C7_Witness ==
    /\ entropy = "different"
    /\ Ended("test")
    /\ reports[1].values[1] = reports[1].values[2]

\* the images an execution delivers to training, validation and testing
Delivered(r) ==
    dataset.by_split[r].train \cup dataset.by_split[r].valid
        \cup dataset.by_split[r].test

\* C8: in the DANN notebook every image of the source or target domain that
\* is delivered to training, validation or testing has a label in {1, 3, 8}.
C8_ClassSubsetOnly ==
    nb = "dann" => \A r \in Runs : \A x \in Delivered(r) : Label(x) \in {1, 3, 8}

C8_Witness ==
    /\ nb = "dann" /\ Ended("fit")
    /\ dataset.by_split[1].train # {} /\ dataset.by_split[1].test # {}
    /\ \E d \in Domains : \E i \in 1..Len(digits[d].train) :
          digits[d].train[i] \notin {1, 3, 8}

\* the run is over without a failure
Completed == failedAt = "none" /\ pc > Len(Cells(nb)) /\ phase = "idle"

\* C9: a run-all execution in which no cell fails ends with the test metrics
\* reported: they are reported once, by the last cell, after fit has
\* returned -- the test loss (RMSE) for DeepDTA; test_domain_acc,
\* test_source_acc, test_target_acc and test_loss for DANN.
C9_MetricsReported ==
    /\ [](/\ Len(reports) <= 1
          /\ reports # <<>> =>
                /\ Completed
                /\ trainer.fitted
                /\ log[Len(log)] = <<"end", "test">>
                /\ log[Len(log) - 2] = <<"end", "fit">>
                /\ reports[1].names =
                      IF nb = "deepdta"
                      THEN {"test_loss"}
                      ELSE {"test_domain_acc", "test_source_acc",
                            "test_target_acc", "test_loss"}
          /\ Completed => Len(reports) = 1)
    /\ <>(failedAt # "none" \/ (Completed /\ Len(reports) = 1))

C9_Witness == nb = "dann" /\ Completed /\ Len(reports) = 1

\* C10: trainer.fit terminates, and the epochs it has completed when it
\* returns are max_epochs = SOLVER.MAX_EPOCHS (no callback of the trainer
\* stops it early), hence at least SOLVER.MIN_EPOCHS and at most
\* SOLVER.MAX_EPOCHS when MIN_EPOCHS <= MAX_EPOCHS; with the DeepDTA
\* tutorial's configuration that is 3.
C10_FitEpochs ==
    /\ [](trainer.fitted =>
            /\ trainer.current_epoch = merged.SOLVER.MAX_EPOCHS
            /\ merged.SOLVER.MIN_EPOCHS <= merged.SOLVER.MAX_EPOCHS =>
                  /\ merged.SOLVER.MIN_EPOCHS <= trainer.current_epoch
                  /\ trainer.current_epoch <= merged.SOLVER.MAX_EPOCHS
            /\ (nb = "deepdta" /\ yaml = TutorialYaml("deepdta")) =>
                  trainer.current_epoch = 3)
    /\ [](phase = "fitting" => trainer.current_epoch <= trainer.max_epochs)
    /\ (phase = "fitting") ~> (phase = "idle" \/ failedAt # "none")

C10_Witness ==
    /\ nb = "deepdta" /\ yaml = TutorialYaml("deepdta")
    /\ trainer.fitted /\ trainer.current_epoch = 3

\* the smaller of two numbers
Min(a, b) == IF a <= b THEN a ELSE b

\* the entries of a list, as a set
Entries(x) == {x[i] : i \in 1..Len(x)}

\* x is the first k entries of a permutation of 0..n-1: min(n, k) entries,
\* no entry twice, every entry one of 0..n-1
IsSampleOf(x, n, k) ==
    /\ Len(x) = Min(n, k)
    /\ Cardinality(Entries(x)) = Len(x)
    /\ \A i \in 1..Len(x) : 0 <= x[i] /\ x[i] < n

\* the three lists of execution r come from three separate randperm calls:
\* three successive states of the generator, one permutation each
SeparateDraws(r) ==
    \E g \in RngStates :
        /\ train_sample_indices[r] =
              Take(RandPerm(train_size, g), train_subset_size)
        /\ valid_sample_indices[r] =
              Take(RandPerm(valid_size, NextRng(g)), valid_subset_size)
        /\ test_sample_indices[r] =
              Take(RandPerm(test_size, NextRng(NextRng(g))), test_subset_size)

\* what the DeepDTA dataset cell leaves behind, in every execution
SampledIndices ==
    \A r \in Runs :
        /\ IsSampleOf(train_sample_indices[r], train_size, train_subset_size)
        /\ IsSampleOf(valid_sample_indices[r], valid_size, valid_subset_size)
        /\ IsSampleOf(test_sample_indices[r], test_size, test_subset_size)
        /\ train_dataset.size = train_size
        /\ valid_dataset.size = valid_size
        /\ test_dataset.size = test_size
        /\ IndicesOf(train_dataset, r) = train_sample_indices[r]
        /\ IndicesOf(valid_dataset, r) = valid_sample_indices[r]
        /\ IndicesOf(test_dataset, r) = test_sample_indices[r]
        /\ SeparateDraws(r)

\* C11: when the DeepDTA dataset cell has run, each sampled index list is the
\* first k entries of a permutation of 0..n-1 (n the size of its split, k the
\* requested subset size): its length is min(n, k), its entries are pairwise
\* distinct, every entry lies in 0..n-1; the Subset built from it is the
\* split indexed by exactly that list, so it holds no sample twice and no
\* index outside the split; and the three lists are cut from three
\* permutations drawn one after the other, not from one shared permutation.
\* The cell establishes this, and no later cell touches the sizes, the lists
\* or the subsets.
C11_SampledIndices ==
    /\ [][(nb = "deepdta" /\ ~Ended("datasets") /\ Ended("datasets")') =>
              SampledIndices']_vars
    /\ [][(nb = "deepdta" /\ Ended("datasets")) =>
              UNCHANGED <<train_size, valid_size, test_size,
                          train_sample_indices, valid_sample_indices,
                          test_sample_indices,
                          train_dataset, valid_dataset, test_dataset>>]_vars

\* a train split smaller than the requested subset, the two other splits at
\* least as large as theirs, and a valid list that starts elsewhere than the
\* train list
C11_Witness ==
    /\ nb = "deepdta" /\ Ended("datasets")
    /\ train_size < train_subset_size
    /\ Len(train_sample_indices[1]) = train_size
    /\ Len(valid_sample_indices[1]) = valid_subset_size
    /\ Len(test_sample_indices[1]) = test_subset_size
    /\ valid_sample_indices[1][1] # train_sample_indices[1][1]

\* the step of a run in which the Colab check cell runs to its end
ColabCellStep == ~Ended("colab") /\ Ended("colab")'

C12_WitnessColab ==
    /\ colab /\ Ended("imports") /\ installed /\ cloned
    /\ cwd = <<"content">> \o ExampleDir(nb)
    /\ printed[1] = "Running on CoLab"

====
